---- MODULE Spec2Model ----
(***************************************************************************)
(* Model of src/main.py: AzureVisionOpenAIIntegration.                     *)
(*                                                                         *)
(* One run = construction (__init__: _load_config, clients, directories)   *)
(* followed by process_all_images.  The configuration file, the input      *)
(* directory, the output directory and the wall clock belong to the        *)
(* environment; the output directory may hold a file of an earlier run.    *)
(*                                                                         *)
(* Strings whose characters the code inspects (file names, paths) are      *)
(* sequences of one-character strings.  Confidences are percentages.       *)
(***************************************************************************)
EXTENDS Integers, Sequences, FiniteSets, TLC

VARIABLES
    configFile,   \* state of the file at config_path
    useNew,       \* USE_NEW_VISION_API, fixed at import time
    dir,          \* os.listdir("input"): the entries of the input directory
    now,          \* the latest reading of the wall clock, in whole seconds
    output,       \* the output directory: path -> record written there
    saveLog,      \* every record _save_result has written, in order
    mainpc,       \* position of main(): start, list, loop, done, exit, crash
    cfgLoaded,    \* what _load_config found in this run
    image_files,  \* process_all_images: the filtered listing
    idx,          \* process_all_images: images for which process_image was called
    ipc,          \* per image: position inside process_image
    content,      \* per image: what the vision service found in it
    analysis,     \* per image: process_image's analysis_result
    gen,          \* per image: process_image's generated_text
    returned,     \* per image: the record process_image returned; the loop
                  \* drops it, and the call's locals, when it moves on
    hist          \* per image: stages entered and external calls made

vars == <<configFile, useNew, dir, now, output, saveLog, mainpc, cfgLoaded,
          image_files, idx, ipc, content, analysis, gen, returned, hist>>

envVars == <<configFile, useNew, dir, now, output, saveLog>>
imgVars == <<ipc, content, analysis, gen, returned, hist>>

----------------------------------------------------------------------------
(* Bounds *)

MaxFiles == 2
MaxTime == 1

----------------------------------------------------------------------------
(* Values *)

NoValue == [none |-> TRUE]

Range(s) == {s[k] : k \in 1..Len(s)}

\* Entries the input directory may hold, in listing order.
Listing ==
    << <<"a", ".", "j", "p", "g">>,
       <<"n", ".", "t", "x", "t">>,
       <<"a", ".", "P", "N", "G">>,
       <<".", "g", "i", "f">>,
       <<"b", ".", "J", "p", "e", "g">> >>

\* The entries of Listing at the positions ks, in listing order.
RECURSIVE Pick(_, _)
Pick(ks, from) ==
    IF from > Len(Listing) THEN <<>>
    ELSE IF from \in ks THEN <<Listing[from]>> \o Pick(ks, from + 1)
         ELSE Pick(ks, from + 1)

\* The directories considered: at most MaxFiles entries of Listing.
Dirs ==
    {Pick(ks, 1) : ks \in {x \in SUBSET (1..Len(Listing)) : Cardinality(x) <= MaxFiles}}

image_extensions ==
    { <<".", "j", "p", "g">>, <<".", "j", "p", "e", "g">>, <<".", "p", "n", "g">>,
      <<".", "b", "m", "p">>, <<".", "g", "i", "f">> }

input_dir == <<"i", "n", "p", "u", "t">>

----------------------------------------------------------------------------
(* Path and string functions *)

LowerChar(c) ==
    CASE c = "J" -> "j"
      [] c = "P" -> "p"
      [] c = "N" -> "n"
      [] c = "G" -> "g"
      [] c = "E" -> "e"
      [] OTHER -> c

\* Variant: the name is compared as it is written.
LowerIdentity(s) == s

\* str.lower
Lower(s) == [k \in 1..Len(s) |-> LowerChar(s[k])]

\* str.rfind: the last index of c in s, 0 when there is none.
RFind(s, c) ==
    LET hits == {k \in 1..Len(s) : s[k] = c}
    IN  IF hits = {} THEN 0 ELSE CHOOSE k \in hits : \A j \in hits : j <= k

\* os.path.splitext: split at the last dot of the last component, unless
\* only dots precede it there.
SplitExt(p) ==
    LET sepIndex == RFind(p, "/")
        dotIndex == RFind(p, ".")
    IN  IF /\ dotIndex > sepIndex
           /\ \E k \in (sepIndex + 1)..(dotIndex - 1) : p[k] # "."
        THEN <<SubSeq(p, 1, dotIndex - 1), SubSeq(p, dotIndex, Len(p))>>
        ELSE <<p, <<>> >>

Basename(p) == SubSeq(p, RFind(p, "/") + 1, Len(p))

PathJoin(d, f) == d \o <<"/">> \o f

IsImageFile(f) == SplitExt(Lower(f))[2] \in image_extensions

RECURSIVE FilterImages(_)
FilterImages(files) ==
    IF files = <<>> THEN <<>>
    ELSE IF IsImageFile(Head(files))
         THEN <<Head(files)>> \o FilterImages(Tail(files))
         ELSE FilterImages(Tail(files))

\* Variant: the name carries no timestamp.
OutputPathNoTimestamp(image_path, t) ==
    <<"output/">> \o SplitExt(Basename(image_path))[1] \o <<".json">>

\* f"output/{file_name}_{int(time.time())}.json"
OutputPath(image_path, t) ==
    <<"output/">> \o SplitExt(Basename(image_path))[1] \o <<"_", ToString(t), ".json">>

----------------------------------------------------------------------------
(* The vision service *)

\* What the service finds in an image: everything, nothing reported as
\* empty lists, or nothing reported as absent (None) fields.
Contents == {"full", "empty", "null"}

None == [some |-> FALSE]
Some(v) == [some |-> TRUE, val |-> v]

TheCaption == [text |-> "a cat sitting on a chair", confidence |-> 92]
TheRegion == [text |-> "a chair", confidence |-> 71]
TheTag == [name |-> "cat", confidence |-> 99]
TheBox == [x |-> 10, y |-> 20, width |-> 100, height |-> 120]

\* Unified API: one ImageAnalysisResult.
UnifiedResponse(c) ==
    CASE c = "full" ->
            [caption |-> Some(TheCaption),
             dense_captions |-> Some(<<TheCaption, TheRegion>>),
             tags |-> Some(<<TheTag>>),
             objects |-> Some(<<[name |-> "cat", confidence |-> 88,
                                 bounding_box |-> TheBox]>>)]
      [] c = "empty" ->
            [caption |-> None, dense_captions |-> Some(<<>>),
             tags |-> Some(<<>>), objects |-> Some(<<>>)]
      [] OTHER ->
            [caption |-> None, dense_captions |-> None,
             tags |-> None, objects |-> None]

\* Legacy API: ImageDescription.captions, TagResult.tags, DetectResult.objects.
DescribeResponse(c) ==
    CASE c = "full" -> [captions |-> Some(<<TheCaption, TheRegion>>)]
      [] c = "empty" -> [captions |-> Some(<<>>)]
      [] OTHER -> [captions |-> None]

TagResponse(c) ==
    CASE c = "full" -> [tags |-> Some(<<TheTag>>)]
      [] c = "empty" -> [tags |-> Some(<<>>)]
      [] OTHER -> [tags |-> None]

DetectResponse(c) ==
    CASE c = "full" ->
            [objects |-> Some(<<[object_property |-> "cat", confidence |-> 88,
                                 rectangle |-> [x |-> TheBox.x, y |-> TheBox.y,
                                                w |-> TheBox.width,
                                                h |-> TheBox.height]]>>)]
      [] c = "empty" -> [objects |-> Some(<<>>)]
      [] OTHER -> [objects |-> None]

\* Python truthiness of an optional list, and `x or []`.
Truthy(o) == o.some /\ o.val # <<>>
OrEmpty(o) == IF o.some THEN o.val ELSE <<>>

Returned(v) == [ok |-> TRUE, val |-> v]
Raised(e) == [ok |-> FALSE, err |-> e]

\* analyze_image, unified branch: the dictionary built from the response.
NormalizeUnified(result) ==
    Returned(
        [caption |-> IF result.caption.some THEN result.caption.val.text ELSE "",
         confidence |-> IF result.caption.some THEN result.caption.val.confidence ELSE 0,
         dense_captions |->
            [k \in 1..Len(OrEmpty(result.dense_captions)) |->
                [text |-> OrEmpty(result.dense_captions)[k].text,
                 confidence |-> OrEmpty(result.dense_captions)[k].confidence]],
         tags |->
            [k \in 1..Len(OrEmpty(result.tags)) |->
                [name |-> OrEmpty(result.tags)[k].name,
                 confidence |-> OrEmpty(result.tags)[k].confidence]],
         objects |->
            [k \in 1..Len(OrEmpty(result.objects)) |->
                [name |-> OrEmpty(result.objects)[k].name,
                 confidence |-> OrEmpty(result.objects)[k].confidence,
                 bounding_box |->
                    [x |-> OrEmpty(result.objects)[k].bounding_box.x,
                     y |-> OrEmpty(result.objects)[k].bounding_box.y,
                     width |-> OrEmpty(result.objects)[k].bounding_box.width,
                     height |-> OrEmpty(result.objects)[k].bounding_box.height]]]])

\* analyze_image, legacy branch: the comprehensions iterate the response
\* lists as they are, and iterating None raises TypeError.
NormalizeLegacy(describe_results, tags_results, detect_objects_results) ==
    IF \/ ~describe_results.captions.some
       \/ ~tags_results.tags.some
       \/ ~detect_objects_results.objects.some
    THEN Raised("TypeError")
    ELSE
      LET caps == describe_results.captions.val
          tgs == tags_results.tags.val
          objs == detect_objects_results.objects.val
      IN Returned(
        [caption |-> IF Truthy(describe_results.captions) THEN caps[1].text ELSE "",
         confidence |-> IF Truthy(describe_results.captions) THEN caps[1].confidence ELSE 0,
         dense_captions |->
            [k \in 1..Len(caps) |->
                [text |-> caps[k].text, confidence |-> caps[k].confidence]],
         tags |->
            [k \in 1..Len(tgs) |->
                [name |-> tgs[k].name, confidence |-> tgs[k].confidence]],
         objects |->
            [k \in 1..Len(objs) |->
                [name |-> objs[k].object_property,
                 confidence |-> objs[k].confidence,
                 bounding_box |->
                    [x |-> objs[k].rectangle.x,
                     y |-> objs[k].rectangle.y,
                     width |-> objs[k].rectangle.w,
                     height |-> objs[k].rectangle.h]]]])

----------------------------------------------------------------------------
(* The completion service *)

\* Messages of the exceptions the completion call may raise.
CompletionErrors == {"RateLimitError"}

TheDescription == <<"Descricao detalhada da imagem">>

\* Variant: the placeholder without the exception's message.
GenerateFallbackNoMessage(e) == <<"Nao foi possivel gerar uma descricao.">>

\* generate_text's except clause: the placeholder embedding str(e).
GenerateFallback(e) == <<"Nao foi possivel gerar uma descricao. Erro: ", e>>

----------------------------------------------------------------------------
(* The run *)

Set(s, i, v) == [s EXCEPT ![i] = v]

NoHist == [analyze |-> 0, generate |-> 0, save |-> 0,
           vision |-> 0, completion |-> 0, write |-> 0,
           visionRaised |-> FALSE, completionErr |-> "", saveRaised |-> FALSE]

ImagePath(i) == PathJoin(input_dir, image_files[i])

\* The configuration holds openai.deployment_name (the template does too).
HasDeployment(cfg) == cfg \in {"valid", "template"}

\* What an earlier run left behind: the first entry of Listing, saved at
\* second 0 with a full analysis and a generated description.
EarlierSave ==
    [path |-> PathJoin(input_dir, Listing[1]), t |-> 0,
     rec |-> [timestamp |-> 0, image_path |-> PathJoin(input_dir, Listing[1]),
              analysis |-> NormalizeUnified(UnifiedResponse("full")).val,
              generated_text |-> TheDescription]]

\* The file that run wrote: output/a_0.json.
EarlierFile == <<"output/", "a", "_", "0", ".json">>

Init ==
    /\ configFile \in {"valid", "nodeploy", "absent", "malformed"}
    /\ useNew \in BOOLEAN
    /\ dir \in Dirs
    /\ now = 0
    /\ saveLog \in {<<>>, <<EarlierSave>>}
    /\ output = [q \in {EarlierFile : e \in Range(saveLog)} |-> EarlierSave.rec]
    /\ mainpc = "start"
    /\ cfgLoaded = "none"
    /\ image_files = <<>>
    /\ idx = 0
    /\ ipc = <<>>
    /\ content = <<>>
    /\ analysis = <<>>
    /\ gen = <<>>
    /\ returned = <<>>
    /\ hist = <<>>

\* Variant: the template is written and the run goes on with it.
ConfigMissingContinues ==
    /\ configFile' = "template"
    /\ cfgLoaded' = "missing"
    /\ mainpc' = "list"

\* _load_config, except FileNotFoundError: write the template, exit(1).
\* SystemExit is no Exception and nothing above __init__ catches it.
ConfigMissing ==
    /\ configFile' = "template"
    /\ cfgLoaded' = "missing"
    /\ mainpc' = "exit"

\* __init__: _load_config, the two clients, _setup_directories.
Construct ==
    /\ mainpc = "start"
    /\ CASE configFile = "absent" -> ConfigMissing
         [] configFile = "malformed" ->
              /\ cfgLoaded' = "malformed"
              /\ mainpc' = "crash"
              /\ UNCHANGED configFile
         [] OTHER ->
              /\ cfgLoaded' = configFile
              /\ mainpc' = "list"
              /\ UNCHANGED configFile
    /\ UNCHANGED <<useNew, dir, now, output, saveLog, image_files, idx>>
    /\ UNCHANGED imgVars

\* process_all_images up to the loop: listing, filter, empty check.
ListImages ==
    /\ mainpc = "list"
    /\ image_files' = FilterImages(dir)
    /\ mainpc' = IF image_files' = <<>> THEN "done" ELSE "loop"
    /\ ipc' = [k \in 1..Len(image_files') |-> "pending"]
    /\ content' = [k \in 1..Len(image_files') |-> "none"]
    /\ analysis' = [k \in 1..Len(image_files') |-> NoValue]
    /\ gen' = [k \in 1..Len(image_files') |-> <<>>]
    /\ returned' = [k \in 1..Len(image_files') |-> NoValue]
    /\ hist' = [k \in 1..Len(image_files') |-> NoHist]
    /\ UNCHANGED <<envVars, cfgLoaded, idx>>

\* Variant: process_image is started without waiting for its return.
CallReturnedAsync == TRUE

\* self.process_image(image_path) is a plain call: the loop body resumes
\* only when the call for the previous image has returned.
CallReturned == IF idx = 0 THEN TRUE ELSE ipc[idx] \in {"saved", "failed"}

\* s without the value held for the previous image.
Dropped(s, blank) == [k \in 1..Len(s) |-> IF k = idx THEN blank ELSE s[k]]

\* The for loop calls process_image for the next image; analyze_image
\* starts.  The record returned for the previous image is not kept.
CallProcessImage ==
    /\ mainpc = "loop"
    /\ idx < Len(image_files)
    /\ CallReturned
    /\ idx' = idx + 1
    /\ ipc' = Set(ipc, idx + 1, IF useNew THEN "analyze" ELSE "describe")
    /\ content' = Dropped(content, "none")
    /\ hist' = Set(hist, idx + 1, [hist[idx + 1] EXCEPT !.analyze = @ + 1])
    /\ analysis' = Dropped(analysis, NoValue)
    /\ gen' = Dropped(gen, <<>>)
    /\ returned' = Dropped(returned, NoValue)
    /\ UNCHANGED <<envVars, mainpc, cfgLoaded, image_files>>

\* The loop is exhausted: "Processamento concluido!".
LoopExit ==
    /\ mainpc = "loop"
    /\ idx = Len(image_files)
    /\ CallReturned
    /\ mainpc' = "done"
    /\ UNCHANGED <<envVars, cfgLoaded, image_files, idx>>
    /\ UNCHANGED imgVars

\* What a reading of the clock may give: the clock does not go back.
Readings == now..MaxTime

ErrorRecord(i, e, t) == [timestamp |-> t, image_path |-> ImagePath(i), error |-> e]

\* Variant: no except clause, the exception leaves process_image and the loop.
FailPropagates(i, e, h) ==
    /\ ipc' = Set(ipc, i, "failed")
    /\ hist' = Set(hist, i, h)
    /\ mainpc' = "crash"
    /\ UNCHANGED <<now, returned, analysis, gen, output, saveLog>>

\* Variant: the except clause starts the image over instead of returning.
FailRetries(i, e, h) ==
    /\ ipc' = Set(ipc, i, IF useNew THEN "analyze" ELSE "describe")
    /\ hist' = Set(hist, i, h)
    /\ UNCHANGED <<now, mainpc, returned, analysis, gen, output, saveLog>>

\* process_image's except clause: exception e reached it with history h.
Fail(i, e, h) ==
    /\ ipc' = Set(ipc, i, "failed")
    /\ \E t \in Readings :
          /\ now' = t
          /\ returned' = Set(returned, i, ErrorRecord(i, e, t))
    /\ hist' = Set(hist, i, h)
    /\ UNCHANGED <<mainpc, analysis, gen, output, saveLog>>

\* Variant: the record is saved without calling generate_text.
AnalyzedSkipsGeneration(i, a, h) ==
    /\ ipc' = Set(ipc, i, "save")
    /\ analysis' = Set(analysis, i, a)
    /\ hist' = Set(hist, i, [h EXCEPT !.save = @ + 1])
    /\ UNCHANGED <<now, mainpc, gen, returned, output, saveLog>>

\* analyze_image returned analysis_result; generate_text starts.
Analyzed(i, a, h) ==
    /\ ipc' = Set(ipc, i, "generate")
    /\ analysis' = Set(analysis, i, a)
    /\ hist' = Set(hist, i, [h EXCEPT !.generate = @ + 1])
    /\ UNCHANGED <<now, mainpc, gen, returned, output, saveLog>>

VisionCalled(h) == [h EXCEPT !.vision = @ + 1]
VisionRaised(h) == [h EXCEPT !.vision = @ + 1, !.visionRaised = TRUE]

\* analyze_image, unified branch: read the file, one analyze call, normalize.
AnalyzeUnified(i) ==
    /\ ipc[i] = "analyze"
    /\ \/ /\ Fail(i, "FileNotFoundError", hist[i])
          /\ UNCHANGED content
       \/ /\ Fail(i, "HttpResponseError", VisionRaised(hist[i]))
          /\ UNCHANGED content
       \/ \E c \in Contents :
            /\ content' = Set(content, i, c)
            /\ LET r == NormalizeUnified(UnifiedResponse(c))
               IN  IF r.ok THEN Analyzed(i, r.val, VisionCalled(hist[i]))
                           ELSE Fail(i, r.err, VisionCalled(hist[i]))
    /\ UNCHANGED <<configFile, useNew, dir, cfgLoaded, image_files, idx>>

\* analyze_image, legacy branch: read the file, describe_image_in_stream.
Describe(i) ==
    /\ ipc[i] = "describe"
    /\ \/ /\ Fail(i, "FileNotFoundError", hist[i])
          /\ UNCHANGED content
       \/ /\ Fail(i, "ComputerVisionError", VisionRaised(hist[i]))
          /\ UNCHANGED content
       \/ /\ ipc' = Set(ipc, i, "tag")
          /\ \E c \in Contents : content' = Set(content, i, c)
          /\ hist' = Set(hist, i, VisionCalled(hist[i]))
          /\ UNCHANGED <<now, mainpc, analysis, gen, returned, output, saveLog>>
    /\ UNCHANGED <<configFile, useNew, dir, cfgLoaded, image_files, idx>>

\* analyze_image, legacy branch: tag_image_in_stream.
TagImage(i) ==
    /\ ipc[i] = "tag"
    /\ \/ Fail(i, "ComputerVisionError", VisionRaised(hist[i]))
       \/ /\ ipc' = Set(ipc, i, "detect")
          /\ hist' = Set(hist, i, VisionCalled(hist[i]))
          /\ UNCHANGED <<now, mainpc, analysis, gen, returned, output, saveLog>>
    /\ UNCHANGED <<configFile, useNew, dir, cfgLoaded, image_files, idx, content>>

\* analyze_image, legacy branch: detect_objects_in_stream, then normalize.
DetectObjects(i) ==
    /\ ipc[i] = "detect"
    /\ \/ Fail(i, "ComputerVisionError", VisionRaised(hist[i]))
       \/ LET r == NormalizeLegacy(DescribeResponse(content[i]),
                                   TagResponse(content[i]),
                                   DetectResponse(content[i]))
          IN  IF r.ok THEN Analyzed(i, r.val, VisionCalled(hist[i]))
                      ELSE Fail(i, r.err, VisionCalled(hist[i]))
    /\ UNCHANGED <<configFile, useNew, dir, cfgLoaded, image_files, idx, content>>

\* generate_text returned text; the record is compiled and _save_result starts.
Generated(i, text, h) ==
    /\ ipc' = Set(ipc, i, "save")
    /\ gen' = Set(gen, i, text)
    /\ hist' = Set(hist, i, [h EXCEPT !.save = @ + 1])
    /\ UNCHANGED <<now, mainpc, analysis, returned, output, saveLog>>

\* generate_text: the prompt, config["openai"]["deployment_name"] (outside
\* the try), then one completion call inside try/except Exception.
Generate(i) ==
    /\ ipc[i] = "generate"
    /\ IF ~HasDeployment(cfgLoaded)
       THEN Fail(i, "KeyError", hist[i])
       ELSE \/ Generated(i, TheDescription,
                         [hist[i] EXCEPT !.completion = @ + 1])
            \/ \E e \in CompletionErrors :
                  Generated(i, GenerateFallback(e),
                            [hist[i] EXCEPT !.completion = @ + 1,
                                            !.completionErr = e])
    /\ UNCHANGED <<configFile, useNew, dir, cfgLoaded, image_files, idx, content>>

\* process_image's result dictionary.
ResultRecord(i, t) ==
    [timestamp |-> t, image_path |-> ImagePath(i),
     analysis |-> analysis[i], generated_text |-> gen[i]]

\* open(path, 'w') + json.dump: creates the file or replaces its content.
WriteFile(fs, path, data) ==
    [q \in (DOMAIN fs) \cup {path} |-> IF q = path THEN data ELSE fs[q]]

\* _save_result, then process_image returns result.
Save(i) ==
    /\ ipc[i] = "save"
    /\ \/ /\ \E t \in Readings :
                /\ now' = t
                /\ output' = WriteFile(output, OutputPath(ImagePath(i), t),
                                       ResultRecord(i, t))
                /\ saveLog' = Append(saveLog, [path |-> ImagePath(i), t |-> t,
                                               rec |-> ResultRecord(i, t)])
                /\ returned' = Set(returned, i, ResultRecord(i, t))
          /\ ipc' = Set(ipc, i, "saved")
          /\ hist' = Set(hist, i, [hist[i] EXCEPT !.write = @ + 1])
          /\ UNCHANGED <<mainpc, analysis, gen>>
       \/ Fail(i, "OSError", [hist[i] EXCEPT !.saveRaised = TRUE])
    /\ UNCHANGED <<configFile, useNew, dir, cfgLoaded, image_files, idx, content>>

Next ==
    \/ Construct
    \/ ListImages
    \/ CallProcessImage
    \/ \E i \in 1..Len(image_files) : AnalyzeUnified(i)
    \/ \E i \in 1..Len(image_files) : Describe(i)
    \/ \E i \in 1..Len(image_files) : TagImage(i)
    \/ \E i \in 1..Len(image_files) : DetectObjects(i)
    \/ \E i \in 1..Len(image_files) : Generate(i)
    \/ \E i \in 1..Len(image_files) : Save(i)
    \/ LoopExit

Spec == Init /\ [][Next]_vars

\* Every service call and file operation returns or raises, so a step of
\* the program that can be taken is taken.
FairSpec == Spec /\ WF_vars(Next)

----------------------------------------------------------------------------
(* The state machine of an image *)

Images == 1..Len(ipc)

State(i) ==
    CASE ipc[i] = "pending" -> "Pending"
      [] ipc[i] \in {"analyze", "describe", "tag", "detect"} -> "Analyzing"
      [] ipc[i] \in {"generate", "save"} -> "Generating"
      [] ipc[i] = "saved" -> "Saved"
      [] OTHER -> "Failed"

Final(i) == State(i) \in {"Saved", "Failed"}

\* The image of the latest call of process_image: its locals and the
\* record it returned are still at hand.
Latest(i) == i = idx

AnalysisFields == {"caption", "confidence", "dense_captions", "tags", "objects"}

\* The number of vision calls a complete analysis makes.
VisionCallsNeeded == IF useNew THEN 1 ELSE 3

Contains(text, e) == \E k \in 1..Len(text) : text[k] = e

----------------------------------------------------------------------------
(* Claims *)

\* C1: for every image whose vision call raised, process_image has written
\* a record for it to an output file, and that record has the key `error`
\* and neither `analysis` nor `generated_text`.
C1_ErrorRecordWritten ==
    \A i \in Images :
        (hist[i].visionRaised /\ Final(i)) =>
            \E q \in DOMAIN output :
                /\ output[q].image_path = ImagePath(i)
                /\ "error" \in DOMAIN output[q]
                /\ "analysis" \notin DOMAIN output[q]
                /\ "generated_text" \notin DOMAIN output[q]

\* Only the completion call failed for image i: the analysis returned, the
\* completion call raised, the save did not raise, process_image returned.
OnlyCompletionFailed(i) ==
    /\ Final(i)
    /\ hist[i].vision = VisionCallsNeeded
    /\ analysis[i] # NoValue
    /\ hist[i].completionErr # ""
    /\ ~hist[i].saveRaised

\* C2: when only the completion call failed, the record process_image saved
\* and returned has `analysis` with its five fields, no `error`, and a
\* non-empty `generated_text` containing the completion error's message.
C2_CompletionFailureDegrades ==
    \A i \in Images :
        OnlyCompletionFailed(i) =>
            /\ \E k \in 1..Len(saveLog) :
                  LET rec == saveLog[k].rec
                  IN  /\ rec.image_path = ImagePath(i)
                      /\ DOMAIN rec =
                            {"timestamp", "image_path", "analysis", "generated_text"}
                      /\ DOMAIN rec.analysis = AnalysisFields
                      /\ rec.generated_text # <<>>
                      /\ Contains(rec.generated_text, hist[i].completionErr)
                      /\ Latest(i) => returned[i] = rec
            /\ State(i) = "Saved"

C2_Witness ==
    \E i \in Images :
        /\ OnlyCompletionFailed(i)
        /\ Latest(i)
        /\ returned[i].analysis.caption # ""
        /\ Contains(returned[i].generated_text, "RateLimitError")

\* C3: process_image propagates no exception of the analysis, generation or
\* save step and always returns a record; in process_all_images a failed
\* image never stops the later ones, so when the loop is over process_image
\* was invoked exactly once for every matched image.
C3_NoExceptionPropagates ==
    /\ mainpc = "crash" => cfgLoaded = "malformed"
    /\ \A i \in Images :
          (Final(i) /\ Latest(i)) =>
              /\ returned[i] # NoValue
              /\ returned[i].image_path = ImagePath(i)
    /\ \A i \in Images :
          (i < idx /\ State(i) = "Failed") => State(i + 1) # "Pending"
    /\ mainpc = "done" =>
          /\ Len(ipc) = Len(image_files)
          /\ \A i \in Images : hist[i].analyze = 1 /\ Final(i)

\* A run that is over in which an image failed in the analysis, another in
\* the save step, and the image after a failed one was still saved.
C3_Witness ==
    /\ mainpc = "done"
    /\ \E i, j \in Images :
          /\ i < j
          /\ State(i) = "Failed"
          /\ hist[i].visionRaised \/ hist[i].saveRaised
          /\ State(j) = "Saved"

\* The transitions of the per-image state machine.
Transitions ==
    { <<"Pending", "Analyzing">>, <<"Analyzing", "Generating">>,
      <<"Generating", "Saved">>, <<"Analyzing", "Failed">>,
      <<"Generating", "Failed">> }

\* What has happened to an image in each state.
StateOrder(i) ==
    /\ hist[i].analyze <= 1 /\ hist[i].generate <= 1 /\ hist[i].save <= 1
    /\ hist[i].completion <= 1 /\ hist[i].write <= 1
    /\ hist[i].vision <= VisionCallsNeeded
    /\ State(i) = "Pending" => hist[i] = NoHist
    /\ hist[i].generate = 1 =>
          /\ hist[i].vision = VisionCallsNeeded
          /\ ~hist[i].visionRaised
          /\ Latest(i) => DOMAIN analysis[i] = AnalysisFields
    /\ hist[i].completion = 1 => hist[i].generate = 1
    /\ hist[i].save = 1 =>
          /\ hist[i].completion = 1
          /\ Latest(i) => gen[i] # <<>>
    /\ hist[i].write = 1 => hist[i].save = 1
    /\ State(i) = "Saved" <=> hist[i].write = 1
    /\ Latest(i) =>
          (State(i) = "Failed" <=> (Final(i) /\ "error" \in DOMAIN returned[i]))
    /\ (hist[i].visionRaised \/ hist[i].saveRaised) => State(i) = "Failed"

\* C4: each image moves Pending -> Analyzing -> Generating -> Saved, or to
\* Failed from Analyzing or Generating when an exception reaches
\* process_image; the completion service is called only after the analysis
\* returned, a file is written only after the generation returned, no stage
\* is entered twice, and Saved and Failed are never left.
C4_StateMachine ==
    /\ [](\A i \in Images : StateOrder(i))
    /\ [][\A i \in Images :
            (Len(ipc') = Len(ipc) /\ State(i)' # State(i)) =>
                <<State(i), State(i)'>> \in Transitions]_vars

\* A run in which one image went through every stage to Saved and another
\* one failed.
C4_Witness ==
    \E i, j \in Images :
        /\ State(i) = "Saved"
        /\ hist[i].completion = 1
        /\ State(j) = "Failed"
        /\ hist[j].generate = 1

\* The image base name _save_result uses: the file name without extension.
Stem(image_path) == SplitExt(Basename(image_path))[1]

Saves == 1..Len(saveLog)

\* C5 as claimed: every saved record has an output file of its own, so
\* there are as many output files as saved records.
C5_OneFilePerRecord == Cardinality(DOMAIN output) = Len(saveLog)

\* C5 as amended: every saved record went to output/<base>_<second>.json;
\* a later save of the same base name makes a new file when its second
\* differs and replaces the file when its second is the same, so there are
\* as many files as distinct (base name, second) pairs of saved records,
\* never more than saved records, and each file holds the latest of them.
C5_OneFilePerNameAndSecond ==
    /\ Cardinality(DOMAIN output) =
          Cardinality({<<Stem(saveLog[k].path), saveLog[k].t>> : k \in Saves})
    /\ Cardinality(DOMAIN output) <= Len(saveLog)
    /\ \A k \in Saves :
          LET q == <<"output/">> \o Stem(saveLog[k].path)
                      \o <<"_", ToString(saveLog[k].t), ".json">>
              same == {j \in Saves : /\ Stem(saveLog[j].path) = Stem(saveLog[k].path)
                                     /\ saveLog[j].t = saveLog[k].t}
          IN  /\ q \in DOMAIN output
              /\ (\A j \in same : j <= k) => output[q] = saveLog[k].rec

\* Two records of the same base name saved in different seconds, and two
\* files.
C5_Witness ==
    \E j, k \in Saves :
        /\ j < k
        /\ Stem(saveLog[j].path) = Stem(saveLog[k].path)
        /\ saveLog[j].t # saveLog[k].t
        /\ Cardinality(DOMAIN output) = Len(saveLog)
        /\ Len(saveLog) >= 2

\* C6: when the configuration file is missing, the run writes the template
\* and halts: no listing, no call of process_image, no service call and no
\* output file in that run, and nothing resumes it.
C6_MissingConfigHalts ==
    cfgLoaded = "missing" =>
        /\ mainpc = "exit"
        /\ configFile = "template"
        /\ image_files = <<>>
        /\ idx = 0
        /\ hist = <<>>
        /\ Len(saveLog) <= 1
        /\ \A k \in Saves : saveLog[k] = EarlierSave

C6_Witness == cfgLoaded = "missing" /\ mainpc = "exit" /\ dir # <<>>

\* C7: images are handled one after another: an image has left Pending
\* only if every earlier one is Saved or Failed, so at most one image is
\* Analyzing or Generating and every call and write of an image comes after
\* the previous image is over.
C7_Sequential ==
    /\ Cardinality({i \in Images : State(i) \in {"Analyzing", "Generating"}}) <= 1
    /\ \A i, j \in Images :
          (i < j /\ hist[j] # NoHist) => Final(i)

C7_Witness ==
    \E i, j \in Images :
        /\ i < j
        /\ Final(i)
        /\ State(j) = "Generating"
        /\ hist[i].vision > 0 /\ hist[j].vision > 0

\* C8: under either strategy, once every vision call of an image has
\* returned, analyze_image returns (it does not raise) the normalized
\* record of what the service found: five fields, each defaulting to "",
\* 0 or the empty sequence when the service reports nothing for it.
C8_SameNormalizedResult ==
    \A i \in Images :
        (Latest(i) /\ hist[i].vision = VisionCallsNeeded /\ ~hist[i].visionRaised) =>
            /\ State(i) # "Failed" \/ returned[i].error # "TypeError"
            /\ hist[i].generate = 1
            /\ DOMAIN analysis[i] = AnalysisFields
            /\ content[i] \in {"empty", "null"} =>
                  analysis[i] = [caption |-> "", confidence |-> 0,
                                 dense_captions |-> <<>>, tags |-> <<>>,
                                 objects |-> <<>>]

\* Letters that differ in case only.
SameLetter(a, b) ==
    \/ a = b
    \/ {a, b} \in {{"j", "J"}, {"p", "P"}, {"n", "N"}, {"g", "G"}, {"e", "E"}}

\* The name ends in extension ext, whatever the case, after a stem that is
\* more than dots.
HasExtension(f, ext) ==
    /\ Len(f) > Len(ext)
    /\ \A k \in 1..Len(ext) : SameLetter(f[Len(f) - Len(ext) + k], ext[k])
    /\ \E k \in 1..(Len(f) - Len(ext)) : f[k] # "."

Matched == {f \in Range(dir) : \E ext \in image_extensions : HasExtension(f, ext)}

\* C9: process_all_images invokes process_image for exactly the entries of
\* the input directory whose extension is, case-insensitively, one of .jpg
\* .jpeg .png .bmp .gif; with no such entry it returns without a service
\* call and without an output file.
C9_ExactlyTheImages ==
    /\ mainpc \in {"loop", "done"} =>
          /\ Range(image_files) = Matched
          /\ Len(image_files) = Cardinality(Matched)
    /\ mainpc = "done" =>
          /\ {image_files[i] : i \in {j \in Images : hist[j].analyze = 1}} = Matched
          /\ \A i \in Images : hist[i].analyze = 1
    /\ (mainpc = "done" /\ Matched = {}) =>
          /\ hist = <<>>
          /\ idx = 0
          /\ \A k \in Saves : saveLog[k] = EarlierSave

\* A finished run over a directory holding an image with an upper-case
\* extension and an entry that is no image.
C9_Witness ==
    /\ mainpc = "done"
    /\ Len(image_files) < Len(dir)
    /\ \E i \in Images :
          /\ image_files[i] # Lower(image_files[i])
          /\ hist[i].analyze = 1

\* C10: every service call and file operation returning or raising, a run
\* of process_all_images terminates, and when it has every matched image
\* is Saved or Failed.
C10_Terminates ==
    /\ (mainpc = "list") ~> (mainpc = "done")
    /\ [](mainpc = "done" => \A i \in 1..Len(image_files) : i \in Images /\ Final(i))

C10_Witness ==
    /\ mainpc = "done"
    /\ Len(image_files) >= 2
    /\ \E i, j \in Images : State(i) = "Saved" /\ State(j) = "Failed"

====
